---- MODULE Spec2Model ----
(***************************************************************************)
(* Microsoft SQL plugin (superblocksteam/mssql).                           *)
(*                                                                         *)
(* Two generations of the plugin are kept in the repository:               *)
(*   src/src/index.ts      the BasePlugin generation      ("legacy")       *)
(*   src/unnamed/part_000  the DatabasePluginPooled one   ("pooled")       *)
(* The binding resolver is the same in both.  The connection handling      *)
(* differs: legacy connects through the driver's process-wide pool         *)
(* (mssql.connect / mssql.query), pooled builds its own ConnectionPool.    *)
(***************************************************************************)
EXTENDS Integers, Sequences, FiniteSets, TLC

(***************************************************************************)
(* Bounds of the model.                                                    *)
(***************************************************************************)
MaxLen == 2        \* longest query template, in tokens
MaxParams == 2     \* longest preparedStatementContext handed to execute
MaxRows == 3       \* longest catalog recordset handed to metadata
MaxProcs == 2      \* concurrent invocations in SpecConc
MaxInvocations == 2  \* times executeQuery may invoke its callback in SpecRetry

(***************************************************************************)
(* Part 1: the binding resolver.                                           *)
(*                                                                         *)
(* A template is a sequence of tokens: literal SQL text and embedded       *)
(* expressions.  The rendered SQL is a sequence of tokens too: literal     *)
(* text, "@PARAM_n" placeholders, and (legacy path) interpolated values.   *)
(***************************************************************************)
Lit(s) == [kind |-> "lit", text |-> s, n |-> 0]
Expr(s) == [kind |-> "expr", text |-> s, n |-> 0]
Param(i) == [kind |-> "param", text |-> "@PARAM_", n |-> i]
Value(v) == [kind |-> "value", text |-> v, n |-> 0]

ExprTexts == {"{{id}}", "{{name}}"}
LitTexts == {"SELECT "}
Values == {"5", "ann"}
EvalFailure == "#throws"
Undefined == "#undefined"

TemplateTokens == {Lit(s) : s \in LitTexts} \cup {Expr(s) : s \in ExprTexts}

SeqsUpTo(S, n) == UNION {[1..k -> S] : k \in 0..n}

Templates == SeqsUpTo(TemplateTokens, MaxLen)

\* A map is a function whose domain is the set of keys written so far.
EmptyMap == [k \in {} |-> 0]
Put(m, k, v) == [x \in (DOMAIN m) \cup {k} |-> IF x = k THEN v ELSE m[x]]

\* extractMustacheStrings: the expression occurrences of the template, left to
\* right, duplicates kept.
RECURSIVE extractMustacheStrings(_)
extractMustacheStrings(tpl) ==
  IF tpl = <<>> THEN <<>>
  ELSE IF Head(tpl).kind = "expr"
       THEN <<Head(tpl).text>> \o extractMustacheStrings(Tail(tpl))
       ELSE extractMustacheStrings(Tail(tpl))

\* renderValue: every expression token is replaced by what the map holds for
\* its text; the lookup is by text, so equal texts get equal replacements.
renderValue(tpl, resolution) ==
  [i \in 1..Len(tpl) |->
     IF tpl[i].kind = "expr"
     THEN IF tpl[i].text \in DOMAIN resolution
          THEN resolution[tpl[i].text]
          ELSE Value(Undefined)
     ELSE tpl[i]]

\* resolveAllBindings: one evaluated value per distinct expression text.
ExprSet(tpl) == {tpl[i].text : i \in {j \in 1..Len(tpl) : tpl[j].kind = "expr"}}
resolveAllBindingsThrows(tpl, ctx) == \E e \in ExprSet(tpl) : ctx[e] = EvalFailure
resolveAllBindings(tpl, ctx) == [e \in ExprSet(tpl) |-> ctx[e]]

VARIABLES
  bindings,                  \* resolutionContext.context: expression text -> value
  preparedStatementContext,  \* resolutionContext.context.preparedStatementContext
  resolution                 \* the last resolveActionConfigurationProperty call

resolverVars == <<bindings, preparedStatementContext, resolution>>

\* resolution.error is what the call threw ("" when it returned);
\* resolution.again says that the call before it had the same arguments.
NoResolution ==
  [status |-> "none", usePreparedSql |-> FALSE, property |-> "body",
   body |-> <<>>, hasBody |-> FALSE, resolved |-> <<>>, error |-> "", again |-> FALSE]

\* The call about to be made repeats the last one.
Again(usePreparedSql, property, hasBody, body) ==
  /\ resolution.status # "none"
  /\ resolution.usePreparedSql = usePreparedSql
  /\ resolution.property = property
  /\ resolution.hasBody = hasBody
  /\ resolution.body = body

\* BindStart with the list of the call before carried over.
BindStartKeepsList ==
  [bindingResolution |-> EmptyMap, bindingCount |-> 1, psc |-> preparedStatementContext]

\* preparedStatementContext = []; bindingCount = 1; bindingResolution = {}
BindStart == [bindingResolution |-> EmptyMap, bindingCount |-> 1, psc |-> <<>>]

\* BindStep with a slot per distinct expression text instead of per occurrence.
BindStepDeduplicated(st, toEval, bindingResolutions) ==
  IF toEval \in DOMAIN st.bindingResolution THEN st
  ELSE [bindingResolution |-> Put(st.bindingResolution, toEval, Param(st.bindingCount)),
        bindingCount |-> st.bindingCount + 1,
        psc |-> Append(st.psc, bindingResolutions[toEval])]

\* The loop of resolveActionConfigurationProperty over the occurrences:
\* st.bindingResolution is the text -> placeholder object, st.psc the list.
BindStep(st, toEval, bindingResolutions) ==
  [bindingResolution |-> Put(st.bindingResolution, toEval, Param(st.bindingCount)),
   bindingCount |-> st.bindingCount + 1,
   psc |-> Append(st.psc,
                  IF toEval \in DOMAIN bindingResolutions
                  THEN bindingResolutions[toEval] ELSE Undefined)]

RECURSIVE BindLoop(_, _, _)
BindLoop(st, occurrences, bindingResolutions) ==
  IF occurrences = <<>> THEN st
  ELSE BindLoop(BindStep(st, Head(occurrences), bindingResolutions),
                Tail(occurrences), bindingResolutions)

\* actionConfiguration[property] ?? ''
PropertyToResolve(hasBody, body) == IF hasBody THEN body ELSE <<>>

\* ResolvePrepared with the list emptied ahead of the evaluation.
ResolvePreparedResetsFirst(usePreparedSql, property, hasBody, body) ==
  LET propertyToResolve == PropertyToResolve(hasBody, body)
  IN  IF resolveAllBindingsThrows(propertyToResolve, bindings)
      THEN /\ resolution' = [status |-> "threw", usePreparedSql |-> usePreparedSql,
                             property |-> property, body |-> body, hasBody |-> hasBody,
                             resolved |-> <<>>, error |-> EvalFailure,
                             again |-> Again(usePreparedSql, property, hasBody, body)]
           /\ preparedStatementContext' = <<>>
      ELSE LET end == BindLoop(BindStart, extractMustacheStrings(propertyToResolve),
                               resolveAllBindings(propertyToResolve, bindings))
           IN  /\ preparedStatementContext' = end.psc
               /\ resolution' = [status |-> "resolved", usePreparedSql |-> usePreparedSql,
                                 property |-> property, body |-> body, hasBody |-> hasBody,
                                 resolved |-> renderValue(propertyToResolve,
                                                          end.bindingResolution),
                                 error |-> "",
                                 again |-> Again(usePreparedSql, property, hasBody, body)]

\* The usePreparedSql branch: the evaluation is awaited first, and what it
\* throws leaves the call as it is; then the list is emptied and filled.
ResolvePrepared(usePreparedSql, property, hasBody, body) ==
  LET propertyToResolve == PropertyToResolve(hasBody, body)
  IN  IF resolveAllBindingsThrows(propertyToResolve, bindings)
      THEN /\ resolution' = [status |-> "threw", usePreparedSql |-> usePreparedSql,
                             property |-> property, body |-> body, hasBody |-> hasBody,
                             resolved |-> <<>>, error |-> EvalFailure,
                             again |-> Again(usePreparedSql, property, hasBody, body)]
           /\ UNCHANGED preparedStatementContext
      ELSE LET bindingResolutions == resolveAllBindings(propertyToResolve, bindings)
               end == BindLoop(BindStart, extractMustacheStrings(propertyToResolve),
                               bindingResolutions)
           IN  /\ preparedStatementContext' = end.psc
               /\ resolution' = [status |-> "resolved", usePreparedSql |-> usePreparedSql,
                                 property |-> property, body |-> body, hasBody |-> hasBody,
                                 resolved |-> renderValue(propertyToResolve,
                                                          end.bindingResolution),
                                 error |-> "",
                                 again |-> Again(usePreparedSql, property, hasBody, body)]

\* super.resolveActionConfigurationProperty: values interpolated into the text.
ResolveLegacy(usePreparedSql, property, hasBody, body) ==
  LET propertyToResolve == PropertyToResolve(hasBody, body)
  IN  /\ UNCHANGED preparedStatementContext
      /\ IF resolveAllBindingsThrows(propertyToResolve, bindings)
         THEN resolution' = [status |-> "threw", usePreparedSql |-> usePreparedSql,
                             property |-> property, body |-> body, hasBody |-> hasBody,
                             resolved |-> <<>>, error |-> EvalFailure,
                             again |-> Again(usePreparedSql, property, hasBody, body)]
         ELSE resolution' = [status |-> "resolved", usePreparedSql |-> usePreparedSql,
                             property |-> property, body |-> body, hasBody |-> hasBody,
                             resolved |->
                               renderValue(propertyToResolve,
                                 [e \in ExprSet(propertyToResolve) |->
                                    Value(resolveAllBindings(propertyToResolve, bindings)[e])]),
                             error |-> "",
                             again |-> Again(usePreparedSql, property, hasBody, body)]

\* UsesPreparedPath without the look at the property.
UsesPreparedPathAnyProperty(usePreparedSql, property) == usePreparedSql

\* Which branch a call takes.
UsesPreparedPath(usePreparedSql, property) == usePreparedSql /\ property = "body"

(***************************************************************************)
(* Part 2: connections and the three operations.                           *)
(*                                                                         *)
(* Messages are sequences of text fragments, so that "the message carries  *)
(* the plugin name and the cause" is a statement about their content.      *)
(***************************************************************************)
pluginName == "Microsoft SQL"

Procs == 1..MaxProcs
NoConn == 0

Contains(msg, part) ==
  \E i \in 1..(Len(msg) - Len(part) + 1) : SubSeq(msg, i, i + Len(part) - 1) = part

\* Errors: IntegrationError is the plugin's own kind, TypeError the runtime's.
IntegrationError(msg) == [kind |-> "error", msg |-> msg, type |-> "IntegrationError", value |-> <<>>]
TypeError(msg) == [kind |-> "error", msg |-> msg, type |-> "TypeError", value |-> <<>>]
Returned(v) == [kind |-> "ok", msg |-> <<>>, type |-> "", value |-> v]
Pending == [kind |-> "none", msg |-> <<>>, type |-> "", value |-> <<>>]

\* datasourceConfiguration: endpoint and authentication present or not, and the
\* shape of authentication.custom.databaseName.value.
DatabaseShapes == {"noCustom", "noDatabaseName", "emptyValue", "named"}
Configs == [endpoint : BOOLEAN, authentication : BOOLEAN, database : DatabaseShapes]
ValidConfig == [endpoint |-> TRUE, authentication |-> TRUE, database |-> "named"]

EndpointMissing == <<"Endpoint not specified for ", pluginName, " step">>
AuthenticationMissing == <<"Authentication not specified for ", pluginName, " step">>
DatabaseMissing == <<"Database not specified for ", pluginName, " step">>

\* ConfigError with the authentication check ahead of the endpoint check.
ConfigErrorAuthenticationFirst(c) ==
  IF ~c.authentication THEN AuthenticationMissing
  ELSE IF ~c.endpoint THEN EndpointMissing
  ELSE IF c.database # "named" THEN DatabaseMissing
  ELSE <<>>

\* The checks at the head of createConnection; <<>> when the configuration passes.
ConfigError(c) ==
  IF ~c.endpoint THEN EndpointMissing
  ELSE IF ~c.authentication THEN AuthenticationMissing
  ELSE IF c.database # "named" THEN DatabaseMissing
  ELSE <<>>

\* ConnectError with the cause dropped.
ConnectErrorWithoutCause(cause) == <<"Failed to connect to ", pluginName>>

\* The catch of createConnection around the driver's connect.
ConnectError(cause) == <<"Failed to connect to ", pluginName, ", ">> \o cause

\* The catch blocks of the operations: each wraps err.message.
QueryFailed(cause) == <<pluginName, " query failed, ">> \o cause
MetadataFailed(cause) == <<"Failed to connect to ", pluginName, ", ">> \o cause
TestFailed(cause) == <<"Test ", pluginName, " connection failed, ">> \o cause

\* What the driver can say.
ConnectCauses == {<<"ECONNREFUSED">>}
QueryCauses == {<<"Invalid object name">>}
NotOpen == <<"Connection is closed.">>
NoGlobalConnection == <<"No connection is specified for that request.">>
NotIterable == <<"undefined is not iterable">>
NoColumns == <<"Cannot read properties of undefined (reading 'push')">>

\* actionConfiguration.body as execute sees it: absent, or a text (a sequence
\* of characters).
NoQuery == [text |-> <<>>, defined |-> FALSE]
Query(t) == [text |-> t, defined |-> TRUE]
Queries == {NoQuery, Query(<<>>), Query(<<" ">>), Query(<<" ", " ">>), Query(<<"S", "Q", "L">>)}

\* lodash isEmpty on a string or undefined: no length.
isEmpty(q) == ~q.defined \/ Len(q.text) = 0
Whitespace(q) == q.defined /\ \A i \in 1..Len(q.text) : q.text[i] = " "

ParamLists == SeqsUpTo(Values, MaxParams)

\* request.input(`PARAM_${paramCount++}`, param) for each element of the list,
\* paramCount starting at `first`.
InputName(i) == [text |-> "PARAM_", n |-> i]
BindInputs(ps, first) ==
  [i \in 1..Len(ps) |-> [value |-> ps[i], name |-> InputName(first + i - 1)]]

\* The driver's answer to a query: result.recordset may be missing (a statement
\* that returns no rows), else it is a sequence of rows.
NoRecordset == [defined |-> FALSE, rows |-> <<>>]
Recordset(rows) == [defined |-> TRUE, rows |-> rows]

\* Catalog rows for metadata.
Row(t, c, d) == [table_name |-> t, column_name |-> c, data_type |-> d]
CatalogRows ==
  {Row("Users", "id", "int"), Row("Users", "name", "varchar"),
   Row("Orders", "id", "int"), Row("constructor", "id", "int")}
CatalogRecordsets == {NoRecordset} \cup {Recordset(r) : r \in SeqsUpTo(CatalogRows, MaxRows)}

\* Rows of an ordinary query, and normalizeTableColumnNames on them.
DataRows == {[value |-> "5", column |-> "ID"]}
DataRecordsets == {NoRecordset, Recordset(<<>>)} \cup {Recordset(<<r>>) : r \in DataRows}
normalizeTableColumnNames(rows) ==
  [i \in 1..Len(rows) |-> [value |-> rows[i].value, column |-> "id"]]

\* tablesMap is a plain object: a lookup of a name it does not hold itself
\* falls through to Object.prototype.
ObjectPrototypeKeys ==
  {"constructor", "toString", "valueOf", "hasOwnProperty", "isPrototypeOf",
   "propertyIsEnumerable", "toLocaleString", "__proto__"}

Column(name, type) == [name |-> name, dataType |-> type]
Table(name, type) == [type |-> type, name |-> name, columns |-> <<>>]

\* The body of metadata's loop over resp.recordset.  st.tablesMap maps a table
\* name to its slot in st.tables, which keeps the insertion order that
\* Object.values follows.
FoldRecord(st, record) ==
  IF st.threw THEN st
  ELSE IF record.table_name \in DOMAIN st.tablesMap
  THEN [st EXCEPT !.tables[st.tablesMap[record.table_name]].columns =
                     Append(@, Column(record.column_name, record.data_type))]
  ELSE IF record.table_name \in ObjectPrototypeKeys
  THEN [st EXCEPT !.threw = TRUE]
  ELSE [st EXCEPT
          !.tables = Append(@, [Table(record.table_name, "TABLE") EXCEPT
                                  !.columns = <<Column(record.column_name,
                                                       record.data_type)>>]),
          !.tablesMap = Put(@, record.table_name, Len(st.tables) + 1)]

RECURSIVE FoldRecords(_, _)
FoldRecords(st, rows) ==
  IF rows = <<>> THEN st ELSE FoldRecords(FoldRecord(st, Head(rows)), Tail(rows))

FoldStart == [threw |-> FALSE, tablesMap |-> EmptyMap, tables |-> <<>>]

\* What metadata's try block yields from the driver's answer.
MetadataResult(resp) ==
  IF ~resp.defined THEN TypeError(NotIterable)
  ELSE LET end == FoldRecords(FoldStart, resp.rows)
       IN  IF end.threw THEN TypeError(NoColumns) ELSE Returned(end.tables)

VARIABLES
  variant,           \* "legacy" (src/src/index.ts) or "pooled" (src/unnamed/part_000)
  op,                \* per invocation: the operation called
  pc,                \* per invocation: where it is
  cfg,               \* per invocation: datasourceConfiguration
  query,             \* per invocation: actionConfiguration.body
  params,            \* per invocation: context.preparedStatementContext
  pending,           \* per invocation: the pool whose connect it awaits
  conn,              \* per invocation: the local conn
  pools,             \* per pool handle: its state
  globalConnection,  \* the driver's process-wide pool (mssql.connect)
  issued,            \* per invocation: the queries it sent
  resp,              \* per invocation: the driver's answer to its query
  cause,             \* per invocation: the driver errors it met
  primary,           \* per invocation: what try/catch produced
  outcome,           \* per invocation: what the caller got
  release,           \* per invocation: its close() call
  closeCalls,        \* per invocation: close() calls made
  connectAttempts    \* per invocation: driver connects started

opVars ==
  <<variant, op, pc, cfg, query, params, pending, conn, pools, globalConnection,
    issued, resp, cause, primary, outcome, release, closeCalls, connectAttempts>>

vars == <<resolverVars, opVars>>

Ops == {"execute", "metadata", "test"}

\* Caught with the error passed on as it came.
CaughtRethrown(o, err) == err

\* The catch block of each operation.
Caught(o, err) ==
  IntegrationError(CASE o = "execute" -> QueryFailed(err.msg)
                     [] o = "metadata" -> MetadataFailed(err.msg)
                     [] OTHER -> TestFailed(err.msg))

\* Which operations of which generation carry their own finally { close }:
\* all of legacy; metadata and test of pooled (executePooled is handed its
\* connection and leaves it to its caller).
HasFinally(v, o) == v = "legacy" \/ o \in {"metadata", "test"}

\* if (conn) { conn.close() }
FinallyClosesOnSuccessOnly(c, res) == c # NoConn /\ res.kind = "ok"
FinallyCloses(c, res) == c # NoConn

\* close() is not awaited (legacy) or its rejection is caught (pooled): what
\* the caller gets is what try/catch produced.
FinallyOutcomeAwaited(res, closeErr) ==
  IF closeErr THEN IntegrationError(<<"close failed">>) ELSE res
FinallyOutcome(res, closeErr) == res

\* The end of an operation: the finally block runs, the promise settles.
\* c is the operation's conn.  close() is called and not waited for; whether
\* it will reject is the driver's choice.  ps and g are the pools and the
\* global pool as the rest of the step leaves them.
Finish(p, c, res, ps, g) ==
  LET closes == HasFinally(variant, op[p]) /\ FinallyCloses(c, res)
  IN  \E closeErr \in (IF closes THEN BOOLEAN ELSE {FALSE}) :
        /\ primary' = [primary EXCEPT ![p] = res]
        /\ outcome' = [outcome EXCEPT ![p] = FinallyOutcome(res, closeErr)]
        /\ pc' = [pc EXCEPT ![p] = "done"]
        /\ closeCalls' = [closeCalls EXCEPT ![p] = IF closes THEN @ + 1 ELSE @]
        /\ release' = [release EXCEPT ![p] =
                         IF closes THEN (IF closeErr THEN "rejecting" ELSE "closing")
                         ELSE @]
        /\ pools' = IF closes
                    THEN [ps EXCEPT ![c] = IF @ = "connected" THEN "closing" ELSE @]
                    ELSE ps
        /\ globalConnection' = IF closes /\ variant = "legacy" THEN NoConn ELSE g

\* The host calls an operation.  For a pooled execute the host has opened a
\* connection with createConnection and is about to call executePooled with it.
Invoke(p, os, configs, queries, paramLists) ==
  /\ pc[p] = "idle"
  /\ \E o \in os, c \in configs :
     \E q \in (IF o = "execute" THEN queries ELSE {NoQuery}),
        ps \in (IF o = "execute" THEN paramLists ELSE {<<>>}) :
       /\ op' = [op EXCEPT ![p] = o]
       /\ query' = [query EXCEPT ![p] = q]
       /\ params' = [params EXCEPT ![p] = ps]
       /\ IF variant = "pooled" /\ o = "execute"
          THEN /\ cfg' = [cfg EXCEPT ![p] = ValidConfig]
               /\ conn' = [conn EXCEPT ![p] = p]
               /\ pools' = [pools EXCEPT ![p] = "connected"]
               /\ pc' = [pc EXCEPT ![p] = "executePooled"]
          ELSE /\ cfg' = [cfg EXCEPT ![p] = c]
               /\ pc' = [pc EXCEPT ![p] = "createConnection"]
               /\ UNCHANGED <<conn, pools>>
  /\ UNCHANGED resolverVars
  /\ UNCHANGED <<variant, pending, globalConnection, issued, resp, cause, primary,
                 outcome, release, closeCalls, connectAttempts>>

\* An error thrown by createConnection reaches the caller's catch in legacy
\* (the call is inside try) and leaves the operation as it is in pooled
\* metadata and test (the call is ahead of try).
FromCreateConnection(p, err) == IF variant = "legacy" THEN Caught(op[p], err) ELSE err

\* createConnection up to its await: the configuration checks, then the
\* driver's connect is started.  mssql.connect (legacy) creates the global
\* pool when there is none and otherwise hands out the one there is; new
\* ConnectionPool (pooled) is a pool of the invocation's own.
createConnection(p) ==
  /\ pc[p] = "createConnection"
  /\ IF ConfigError(cfg[p]) # <<>>
     THEN /\ Finish(p, NoConn,
                    FromCreateConnection(p, IntegrationError(ConfigError(cfg[p]))),
                    pools, globalConnection)
          /\ UNCHANGED <<pending, connectAttempts>>
     ELSE /\ connectAttempts' = [connectAttempts EXCEPT ![p] = @ + 1]
          /\ pc' = [pc EXCEPT ![p] = "connecting"]
          /\ IF variant = "legacy" /\ globalConnection # NoConn
             THEN /\ pending' = [pending EXCEPT ![p] = globalConnection]
                  /\ UNCHANGED <<pools, globalConnection>>
             ELSE /\ pending' = [pending EXCEPT ![p] = p]
                  /\ pools' = [pools EXCEPT ![p] = "connecting"]
                  /\ globalConnection' = IF variant = "legacy" THEN p ELSE globalConnection
          /\ UNCHANGED <<primary, outcome, release, closeCalls>>
  /\ UNCHANGED resolverVars
  /\ UNCHANGED <<variant, op, cfg, query, params, conn, issued, resp, cause>>

CatalogQuery == Query(<<"select table_name, column_name, data_type ...">>)
ProbeQuery == Query(<<"select name from sys.databases">>)

\* A query is sent on pool `on` (NoConn: there is no pool to send it on); ps
\* are the pools at that moment.
Issue(p, sql, on, inputs, ps) ==
  /\ issued' = [issued EXCEPT ![p] =
                  Append(@, [sql |-> sql, on |-> on, inputs |-> inputs,
                             open |-> on # NoConn /\ ps[on] = "connected"])]
  /\ pc' = [pc EXCEPT ![p] = "querying"]
  /\ pools' = ps
  /\ UNCHANGED <<globalConnection, primary, outcome, release, closeCalls>>

\* The pool the query of an operation goes to: execute and every pooled
\* operation use conn (c); legacy metadata and test call mssql.query, which
\* uses the global pool of the moment.
QueryTarget(p, c) ==
  IF variant = "legacy" /\ op[p] \in {"metadata", "test"} THEN globalConnection ELSE c

\* paramCount when the request is built.  execute declares it next to the
\* request (let paramCount = 1).  executePooled declares it ahead of the
\* callback it hands to executeQuery, so every invocation of the callback goes
\* on counting where the one before stopped.
paramCount(p) ==
  IF variant = "legacy" THEN 1 ELSE 1 + Len(params[p]) * Len(issued[p])

\* Each operation from the moment it holds its connection c to its next await
\* or to its end: execute returns at once on an empty body, and otherwise
\* builds the request, binds the parameters and sends the query; metadata and
\* test send their fixed query.
Body(p, c, ps) ==
  CASE op[p] = "execute" ->
         IF isEmpty(query[p])
         THEN Finish(p, c, Returned(<<>>), ps, globalConnection) /\ UNCHANGED issued
         ELSE Issue(p, query[p], QueryTarget(p, c), BindInputs(params[p], paramCount(p)), ps)
    [] op[p] = "metadata" -> Issue(p, CatalogQuery, QueryTarget(p, c), <<>>, ps)
    [] OTHER -> Issue(p, ProbeQuery, QueryTarget(p, c), <<>>, ps)

\* The connect promise resolves: conn is the pool, and the operation runs on
\* to its query.
connectResolves(p) ==
  /\ pc[p] = "connecting"
  /\ pools[pending[p]] \in {"connecting", "connected", "closing", "closed"}
  /\ conn' = [conn EXCEPT ![p] = pending[p]]
  /\ Body(p, pending[p],
          [pools EXCEPT ![pending[p]] = IF @ = "connecting" THEN "connected" ELSE @])
  /\ UNCHANGED resolverVars
  /\ UNCHANGED <<variant, op, cfg, query, params, pending, resp, cause, connectAttempts>>

\* connectRejects with the connection tried again instead of the error thrown.
connectRejectsAndRetries(p) ==
  /\ pc[p] = "connecting"
  /\ pools[pending[p]] \in {"connecting", "failed"}
  /\ \E c \in ConnectCauses : cause' = [cause EXCEPT ![p] = Append(@, c)]
  /\ pc' = [pc EXCEPT ![p] = "createConnection"]
  /\ pools' = [pools EXCEPT ![pending[p]] = "failed"]
  /\ globalConnection' = IF globalConnection = pending[p] THEN NoConn ELSE globalConnection
  /\ UNCHANGED resolverVars
  /\ UNCHANGED <<variant, op, cfg, query, params, pending, conn, issued, resp,
                 primary, outcome, release, closeCalls, connectAttempts>>

\* The connect promise rejects: createConnection wraps the cause; the driver
\* forgets a global pool that failed to connect.
connectRejects(p) ==
  /\ pc[p] = "connecting"
  /\ pools[pending[p]] \in {"connecting", "failed"}
  /\ \E c \in ConnectCauses :
       /\ cause' = [cause EXCEPT ![p] = Append(@, c)]
       /\ Finish(p, NoConn, FromCreateConnection(p, IntegrationError(ConnectError(c))),
                 [pools EXCEPT ![pending[p]] = "failed"],
                 IF globalConnection = pending[p] THEN NoConn ELSE globalConnection)
  /\ UNCHANGED resolverVars
  /\ UNCHANGED <<variant, op, cfg, query, params, pending, conn, issued, resp,
                 connectAttempts>>

\* executePooled, called with the connection its caller opened.
executePooled(p) ==
  /\ pc[p] = "executePooled"
  /\ Body(p, conn[p], pools)
  /\ UNCHANGED resolverVars
  /\ UNCHANGED <<variant, op, cfg, query, params, pending, conn, resp, cause,
                 connectAttempts>>

\* What each operation makes of the driver's answer.  For execute the
\* normalisation of a missing recordset either throws or yields nothing
\* (`throws`); legacy has it inside try, executePooled after the catch.
Processed(p, rs, throws) ==
  CASE op[p] = "execute" ->
         IF rs.defined THEN Returned(normalizeTableColumnNames(rs.rows))
         ELSE IF ~throws THEN Returned(<<>>)
         ELSE IF variant = "legacy" THEN Caught("execute", TypeError(NotIterable))
         ELSE TypeError(NotIterable)
    [] op[p] = "metadata" ->
         LET r == MetadataResult(rs)
         IN  IF r.kind = "error" THEN Caught("metadata", r) ELSE r
    [] OTHER -> Returned(<<>>)

Last(s) == s[Len(s)]

\* The query promise resolves.
queryResolves(p, catalog) ==
  /\ pc[p] = "querying"
  /\ Last(issued[p]).open
  /\ \E rs \in (CASE op[p] = "metadata" -> catalog
                  [] op[p] = "execute" -> DataRecordsets
                  [] OTHER -> {Recordset(<<>>)}),
        throws \in BOOLEAN :
       /\ throws => (op[p] = "execute" /\ ~rs.defined)
       /\ resp' = [resp EXCEPT ![p] = rs]
       /\ Finish(p, conn[p], Processed(p, rs, throws), pools, globalConnection)
  /\ UNCHANGED resolverVars
  /\ UNCHANGED <<variant, op, cfg, query, params, pending, conn, issued, cause,
                 connectAttempts>>

\* The query promise rejects: the database refused the statement, or the pool
\* was not open (or not there) when the query was sent.
queryRejects(p) ==
  /\ pc[p] = "querying"
  /\ \E c \in (IF Last(issued[p]).open THEN QueryCauses
               ELSE IF Last(issued[p]).on = NoConn THEN {NoGlobalConnection}
               ELSE {NotOpen}) :
       /\ cause' = [cause EXCEPT ![p] = Append(@, c)]
       /\ Finish(p, conn[p], Caught(op[p], TypeError(c)), pools, globalConnection)
  /\ UNCHANGED resolverVars
  /\ UNCHANGED <<variant, op, cfg, query, params, pending, conn, issued, resp,
                 connectAttempts>>

\* executeQuery (pooled) invokes the callback it was given once more after the
\* query of the invocation before was rejected: a new request is built on
\* conn, the parameters are bound and the query is sent again.
executeQueryInvokesAgain(p) ==
  /\ variant = "pooled"
  /\ pc[p] = "querying"
  /\ Len(issued[p]) < MaxInvocations
  /\ \E c \in (IF Last(issued[p]).open THEN QueryCauses ELSE {NotOpen}) :
       cause' = [cause EXCEPT ![p] = Append(@, c)]
  /\ issued' = [issued EXCEPT ![p] =
                  Append(@, [sql |-> Last(issued[p]).sql, on |-> conn[p],
                             inputs |-> IF op[p] = "execute"
                                        THEN BindInputs(params[p], paramCount(p))
                                        ELSE <<>>,
                             open |-> pools[conn[p]] = "connected"])]
  /\ UNCHANGED resolverVars
  /\ UNCHANGED <<variant, op, pc, cfg, query, params, pending, conn, pools,
                 globalConnection, resp, primary, outcome, release, closeCalls,
                 connectAttempts>>

\* The close() promise settles, some time after the operation has ended.
closeSettles(p) ==
  /\ release[p] \in {"closing", "rejecting"}
  /\ release' = [release EXCEPT ![p] = IF @ = "closing" THEN "completed" ELSE "rejected"]
  /\ pools' = [pools EXCEPT ![conn[p]] = "closed"]
  /\ UNCHANGED resolverVars
  /\ UNCHANGED <<variant, op, pc, cfg, query, params, pending, conn, globalConnection,
                 issued, resp, cause, primary, outcome, closeCalls, connectAttempts>>

(***************************************************************************)
(* Specifications.                                                         *)
(***************************************************************************)
InitResolver ==
  /\ preparedStatementContext = <<>>
  /\ resolution = NoResolution

InitOps ==
  /\ variant \in {"legacy", "pooled"}
  /\ op = [p \in Procs |-> "none"]
  /\ pc = [p \in Procs |-> "idle"]
  /\ cfg = [p \in Procs |-> ValidConfig]
  /\ query = [p \in Procs |-> NoQuery]
  /\ params = [p \in Procs |-> <<>>]
  /\ pending = [p \in Procs |-> NoConn]
  /\ conn = [p \in Procs |-> NoConn]
  /\ pools = [p \in Procs |-> "none"]
  /\ globalConnection = NoConn
  /\ issued = [p \in Procs |-> <<>>]
  /\ resp = [p \in Procs |-> NoRecordset]
  /\ cause = [p \in Procs |-> <<>>]
  /\ primary = [p \in Procs |-> Pending]
  /\ outcome = [p \in Procs |-> Pending]
  /\ release = [p \in Procs |-> "none"]
  /\ closeCalls = [p \in Procs |-> 0]
  /\ connectAttempts = [p \in Procs |-> 0]

\* One invocation, every input.
Init ==
  /\ bindings = [e \in ExprTexts |-> "5"]
  /\ InitResolver
  /\ InitOps

Next ==
  \/ Invoke(1, Ops, Configs, Queries, ParamLists)
  \/ createConnection(1)
  \/ connectResolves(1)
  \/ connectRejects(1)
  \/ executePooled(1)
  \/ queryResolves(1, CatalogRecordsets)
  \/ queryRejects(1)
  \/ closeSettles(1)

Spec == Init /\ [][Next]_vars

\* Concurrent invocations against one valid datasource configuration.
ConcRecordsets == {Recordset(<<Row("Users", "id", "int")>>)}

NextConc ==
  \E p \in Procs :
       \/ Invoke(p, Ops, {ValidConfig}, {Query(<<"S", "Q", "L">>)}, {<<>>})
       \/ createConnection(p)
       \/ connectResolves(p)
       \/ connectRejects(p)
       \/ executePooled(p)
       \/ queryResolves(p, ConcRecordsets)
       \/ queryRejects(p)
       \/ closeSettles(p)

SpecConc == Init /\ [][NextConc]_vars

\* One invocation, with an executeQuery that may invoke its callback again.
NextRetry ==
  \/ Invoke(1, Ops, {ValidConfig}, Queries, ParamLists)
  \/ createConnection(1)
  \/ connectResolves(1)
  \/ connectRejects(1)
  \/ executePooled(1)
  \/ executeQueryInvokesAgain(1)
  \/ queryResolves(1, ConcRecordsets)
  \/ queryRejects(1)
  \/ closeSettles(1)

SpecRetry == Init /\ [][NextRetry]_vars

\* The resolver, called again and again on one runtime context.
resolveActionConfigurationProperty(usePreparedSql, property, hasBody, body) ==
  /\ hasBody \/ body = <<>>
  /\ IF UsesPreparedPath(usePreparedSql, property)
     THEN ResolvePrepared(usePreparedSql, property, hasBody, body)
     ELSE ResolveLegacy(usePreparedSql, property, hasBody, body)
  /\ UNCHANGED bindings
  /\ UNCHANGED opVars

InitResolve ==
  /\ bindings \in [ExprTexts -> Values \cup {EvalFailure}]
  /\ InitResolver
  /\ InitOps
  /\ variant = "legacy"

NextResolve ==
  \E usePreparedSql \in BOOLEAN, property \in {"body", "headers"},
     hasBody \in BOOLEAN, body \in Templates :
    resolveActionConfigurationProperty(usePreparedSql, property, hasBody, body)

SpecResolve == InitResolve /\ [][NextResolve]_vars

(***************************************************************************)
(* Claims about the binding resolver (SpecResolve).                        *)
(***************************************************************************)
\* The positions of the template that hold an expression, and the i-th of them.
ExprPositions(tpl) == {j \in 1..Len(tpl) : tpl[j].kind = "expr"}
NthExprPosition(tpl, i) ==
  CHOOSE j \in ExprPositions(tpl) :
    Cardinality({x \in ExprPositions(tpl) : x < j}) = i - 1

ResolvedPrepared ==
  /\ resolution.status = "resolved"
  /\ UsesPreparedPath(resolution.usePreparedSql, resolution.property)

LastTemplate == PropertyToResolve(resolution.hasBody, resolution.body)

\* C1: after a successful resolution of 'body' with usePreparedSql, the
\* preparedStatementContext has one element per expression occurrence of the
\* template (duplicates counted), and element i is the evaluated value of the
\* i-th occurrence, left to right.
C1_OneSlotPerOccurrence ==
  ResolvedPrepared =>
    /\ Len(preparedStatementContext) = Cardinality(ExprPositions(LastTemplate))
    /\ \A i \in 1..Cardinality(ExprPositions(LastTemplate)) :
         preparedStatementContext[i] =
           bindings[LastTemplate[NthExprPosition(LastTemplate, i)].text]

\* A template with the same expression twice has been resolved to two slots.
C1_Witness ==
  /\ ResolvedPrepared
  /\ Cardinality(ExprPositions(LastTemplate)) = 2
  /\ Cardinality(ExprSet(LastTemplate)) = 1
  /\ Len(preparedStatementContext) = 2

\* C2: in the rendered SQL the i-th expression occurrence is replaced by
\* @PARAM_i, so that each of @PARAM_1..@PARAM_k occurs exactly once, also
\* when two occurrences have the same text.
C2_OnePlaceholderPerOccurrence ==
  ResolvedPrepared =>
    /\ Len(resolution.resolved) = Len(LastTemplate)
    /\ \A i \in 1..Cardinality(ExprPositions(LastTemplate)) :
         /\ resolution.resolved[NthExprPosition(LastTemplate, i)] = Param(i)
         /\ Cardinality({j \in 1..Len(resolution.resolved) :
                           resolution.resolved[j] = Param(i)}) = 1

\* What the code does hold to: occurrences of distinct texts get the
\* placeholders of their own positions.
C2_DistinctTextsDistinctPlaceholders ==
  (ResolvedPrepared
     /\ Cardinality(ExprSet(LastTemplate)) = Cardinality(ExprPositions(LastTemplate))) =>
    \A i \in 1..Cardinality(ExprPositions(LastTemplate)) :
      resolution.resolved[NthExprPosition(LastTemplate, i)] = Param(i)

(***************************************************************************)
(* Claims about the operations (Spec: one invocation, every input;         *)
(* SpecConc: concurrent invocations).                                      *)
(***************************************************************************)
Done(p) == pc[p] = "done"
Acquired(p) == conn[p] # NoConn

\* C3: an execute whose body is empty or whitespace-only returns an empty
\* output with no connection activity: nothing connected, no request built,
\* no parameter bound, no query sent.
C3_BlankBodyNoConnectionActivity ==
  \A p \in Procs :
    (Done(p) /\ op[p] = "execute" /\ ConfigError(cfg[p]) = <<>>
       /\ (isEmpty(query[p]) \/ Whitespace(query[p]))) =>
      /\ outcome[p] = Returned(<<>>)
      /\ connectAttempts[p] = 0
      /\ issued[p] = <<>>

\* C4: createConnection checks endpoint, then authentication, then database
\* name; the first violation decides the error, the three errors differ, and
\* no connection is attempted.
FirstViolation(c) ==
  IF ~c.endpoint THEN "endpoint"
  ELSE IF ~c.authentication THEN "authentication"
  ELSE IF c.database \in {"noCustom", "noDatabaseName", "emptyValue"} THEN "database"
  ELSE "none"

ViolationMessage(v) ==
  CASE v = "endpoint" -> <<"Endpoint not specified for ", "Microsoft SQL", " step">>
    [] v = "authentication" -> <<"Authentication not specified for ", "Microsoft SQL", " step">>
    [] OTHER -> <<"Database not specified for ", "Microsoft SQL", " step">>

C4_FirstViolationWins ==
  \A p \in Procs :
    (Done(p) /\ FirstViolation(cfg[p]) # "none") =>
      /\ outcome[p].kind = "error"
      /\ outcome[p].type = "IntegrationError"
      /\ \A v \in {"endpoint", "authentication", "database"} :
           Contains(outcome[p].msg, ViolationMessage(v)) <=> v = FirstViolation(cfg[p])
      /\ connectAttempts[p] = 0
      /\ pending[p] = NoConn
      /\ conn[p] = NoConn
      /\ pools[p] = "none"
      /\ issued[p] = <<>>

\* Endpoint and authentication are both missing, and the operation has ended.
C4_Witness ==
  \E p \in Procs :
    /\ Done(p)
    /\ ~cfg[p].endpoint
    /\ ~cfg[p].authentication
    /\ Contains(outcome[p].msg, ViolationMessage("endpoint"))

\* C5: once a connection has been acquired, close is called on it exactly
\* once on every way out of the operation (for the operations that hold the
\* finally block: all of legacy, metadata and test of pooled).
C5_ReleasedExactlyOnce ==
  \A p \in Procs :
    /\ closeCalls[p] <= 1
    /\ ~Done(p) => closeCalls[p] = 0
    /\ (Done(p) /\ Acquired(p) /\ HasFinally(variant, op[p])) => closeCalls[p] = 1

\* A metadata whose result could not be processed has ended, connection closed once.
C5_Witness ==
  \E p \in Procs :
    /\ Done(p)
    /\ Acquired(p)
    /\ op[p] = "metadata"
    /\ cause[p] = <<>>
    /\ outcome[p].kind = "error"
    /\ closeCalls[p] = 1

\* C6 as claimed: when a failure of the query or of the processing reaches
\* the caller, the release of the acquired connection has completed.
C6_ReleaseCompletedBeforeFailure ==
  \A p \in Procs :
    (Done(p) /\ Acquired(p) /\ HasFinally(variant, op[p]) /\ outcome[p].kind = "error") =>
      release[p] \in {"completed", "rejected"}

\* C6 as amended: when such a failure reaches the caller, the release has been
\* started (close has been called and the pool no longer takes requests); it
\* completes later.
C6_ReleaseStartedBeforeFailure ==
  \A p \in Procs :
    (Done(p) /\ Acquired(p) /\ HasFinally(variant, op[p]) /\ outcome[p].kind = "error") =>
      /\ release[p] # "none"
      /\ closeCalls[p] = 1
      /\ pools[conn[p]] \in {"closing", "closed"}

\* A query failure has reached the caller while the close is still under way.
C6_Witness ==
  \E p \in Procs :
    /\ Done(p)
    /\ Acquired(p)
    /\ outcome[p].kind = "error"
    /\ cause[p] # <<>>
    /\ release[p] = "closing"
    /\ pools[conn[p]] = "closing"

\* C7: what the caller gets is what the operation produced, whether the
\* release succeeds or fails.
C7_ReleaseNeverMasksOutcome ==
  \A p \in Procs :
    Done(p) =>
      /\ outcome[p] = primary[p]
      /\ release[p] \in {"rejecting", "rejected"} =>
           \/ outcome[p].kind = "ok"
           \/ ~Contains(outcome[p].msg, <<"close failed">>)

\* A successful operation whose close was rejected.
C7_Witness ==
  \E p \in Procs :
    /\ Done(p)
    /\ release[p] = "rejected"
    /\ outcome[p].kind = "ok"
    /\ op[p] = "metadata"

\* C8: concurrent invocations each run their query on the connection they
\* acquired, and nobody's release closes a connection that another invocation
\* holds and has not released.
InFlight(p) == pc[p] \in {"executePooled", "querying"} /\ Acquired(p)

C8_OwnConnectionUntouched ==
  \A p \in Procs :
    /\ \A i \in 1..Len(issued[p]) : issued[p][i].on = conn[p]
    /\ InFlight(p) => pools[conn[p]] = "connected"

\* The pooled generation keeps to it.
C8_PooledOwnConnectionUntouched == variant = "pooled" => C8_OwnConnectionUntouched

\* C9: a test whose connection could not be established ends in a
\* connectivity error that carries the plugin name and the cause's message,
\* and no pool of that invocation is left open: the pool it tried never
\* opened, and the driver holds no global pool for it.
ConnectFailed(p) == Done(p) /\ pending[p] # NoConn /\ ~Acquired(p)

C9_TestConnectFailure ==
  \A p \in Procs :
    (op[p] = "test" /\ ConnectFailed(p)) =>
      /\ outcome[p].kind = "error"
      /\ outcome[p].type = "IntegrationError"
      /\ Contains(outcome[p].msg, <<"Failed to connect to ", "Microsoft SQL">>)
      /\ Len(cause[p]) = 1
      /\ Contains(outcome[p].msg, cause[p][1])
      /\ pools[pending[p]] = "failed"
      /\ globalConnection = NoConn
      /\ closeCalls[p] = 0

\* A pooled test has failed to connect.
C9_Witness ==
  \E p \in Procs :
    /\ op[p] = "test"
    /\ variant = "pooled"
    /\ ConnectFailed(p)
    /\ cause[p] = <<<<"ECONNREFUSED">>>>

\* C10: for any catalog rows, metadata returns one Table of type TABLE per
\* distinct table name, whose columns are the (column_name, data_type) pairs
\* of the rows of that table, in row order.
RowsOf(rows, name) == SelectSeq(rows, LAMBDA r : r.table_name = name)
ColumnsOf(rows, name) ==
  [i \in 1..Len(RowsOf(rows, name)) |->
     [name |-> RowsOf(rows, name)[i].column_name,
      dataType |-> RowsOf(rows, name)[i].data_type]]
TableNames(rows) == {rows[i].table_name : i \in 1..Len(rows)}

Grouped(rows, result) ==
  /\ result.kind = "ok"
  /\ Len(result.value) = Cardinality(TableNames(rows))
  /\ \A name \in TableNames(rows) :
       \E i \in 1..Len(result.value) :
         /\ result.value[i].name = name
         /\ result.value[i].type = "TABLE"
         /\ result.value[i].columns = ColumnsOf(rows, name)

Answered(p) == Done(p) /\ op[p] = "metadata" /\ resp[p].defined

C10_OneTablePerName ==
  \A p \in Procs : Answered(p) => Grouped(resp[p].rows, outcome[p])

\* It holds of rows whose table names are not property names of Object.prototype.
C10_OrdinaryTableNames ==
  \A p \in Procs :
    (Answered(p) /\ TableNames(resp[p].rows) \cap ObjectPrototypeKeys = {}) =>
      Grouped(resp[p].rows, outcome[p])

\* C11: when the configuration checks, the connect or the query fail, the
\* operation ends in an error, never in a result, and the error is an
\* IntegrationError whose message holds the plugin name and the message of
\* what failed.
FailedStep(p) == ConfigError(cfg[p]) # <<>> \/ cause[p] # <<>>

C11_FailuresSurfaceAsIntegrationError ==
  \A p \in Procs :
    (Done(p) /\ FailedStep(p)) =>
      /\ outcome[p].kind = "error"
      /\ outcome[p].type = "IntegrationError"
      /\ Contains(outcome[p].msg, <<"Microsoft SQL">>)
      /\ ConfigError(cfg[p]) # <<>> => Contains(outcome[p].msg, ConfigError(cfg[p]))
      /\ \A i \in 1..Len(cause[p]) : Contains(outcome[p].msg, cause[p][i])

\* The database refused the statement of a pooled execute.
C11_Witness ==
  \E p \in Procs :
    /\ Done(p)
    /\ variant = "pooled"
    /\ op[p] = "execute"
    /\ cause[p] = <<<<"Invalid object name">>>>
    /\ outcome[p].type = "IntegrationError"

(***************************************************************************)
(* Claims about successive resolver calls (SpecResolve).                   *)
(***************************************************************************)
\* The values of the expression occurrences of a template, left to right.
ExpectedParams(tpl) ==
  [i \in 1..Cardinality(ExprPositions(tpl)) |->
     bindings[tpl[NthExprPosition(tpl, i)].text]]

\* C12: every successful call of the parameter-binding path leaves a list
\* built from nothing but its own template: it has k elements, the values of
\* the template's k occurrences, whatever list the call found; and a call
\* that repeats the successful call before it leaves a list equal to the one
\* it found.
C12_RerunEqualAndFresh ==
  [][(resolution'.status = "resolved" /\ resolution'.usePreparedSql
        /\ resolution'.property = "body") =>
       /\ preparedStatementContext' =
            ExpectedParams(PropertyToResolve(resolution'.hasBody, resolution'.body))
       /\ (resolution'.again /\ resolution.status = "resolved") =>
            preparedStatementContext' = preparedStatementContext]_vars

\* A template of two occurrences has been resolved twice in succession.
C12_Witness ==
  /\ ResolvedPrepared
  /\ resolution.again
  /\ Cardinality(ExprPositions(LastTemplate)) = 2
  /\ Len(preparedStatementContext) = 2

\* The placeholders of a rendered SQL text, left to right.
Placeholders(sql) == SelectSeq(sql, LAMBDA t : t.kind = "param")

BodyResolved == resolution.status = "resolved" /\ resolution.property = "body"

\* C13: whatever calls were made on the runtime context, once the body has
\* been resolved the preparedStatementContext matches the placeholders of the
\* SQL that resolution produced: as many elements as placeholders, and the
\* i-th placeholder is @PARAM_i.
C13_ContextMatchesPlaceholders ==
  BodyResolved =>
    /\ Len(preparedStatementContext) = Len(Placeholders(resolution.resolved))
    /\ \A i \in 1..Len(Placeholders(resolution.resolved)) :
         Placeholders(resolution.resolved)[i] = Param(i)

\* What the code does hold to: right after a successful call of the
\* parameter-binding path on a template whose occurrences differ in text.
C13_PreparedDistinctTextsMatch ==
  (ResolvedPrepared
     /\ Cardinality(ExprSet(LastTemplate)) = Cardinality(ExprPositions(LastTemplate))) =>
    /\ Len(preparedStatementContext) = Len(Placeholders(resolution.resolved))
    /\ \A i \in 1..Len(Placeholders(resolution.resolved)) :
         Placeholders(resolution.resolved)[i] = Param(i)

(***************************************************************************)
(* Claims about the requests an execute builds (Spec, SpecRetry).          *)
(***************************************************************************)
\* The inputs a request should carry for a list: element i under PARAM_i.
BoundInOrder(ps) == [i \in 1..Len(ps) |-> [value |-> ps[i], name |-> [text |-> "PARAM_", n |-> i]]]

\* C14: every request an execute runs its query on carries exactly the N
\* elements of the list, the i-th under the name PARAM_i, numbered from 1 for
\* each request that is built, and the SQL text is sent on it as one query.
C14_EveryRequestBoundFromOne ==
  \A p \in Procs :
    op[p] = "execute" =>
      \A i \in 1..Len(issued[p]) :
        /\ issued[p][i].inputs = BoundInOrder(params[p])
        /\ issued[p][i].sql = query[p]

\* What the code does hold to: the first request of an invocation.
C14_FirstRequestBoundFromOne ==
  \A p \in Procs :
    (op[p] = "execute" /\ issued[p] # <<>>) =>
      /\ issued[p][1].inputs = BoundInOrder(params[p])
      /\ issued[p][1].sql = query[p]

\* An expression of the template cannot be evaluated in the runtime context.
EvaluationFails(tpl) == \E i \in ExprPositions(tpl) : bindings[tpl[i].text] = "#throws"

\* C15: a call of the parameter-binding path whose template holds an
\* expression the evaluator fails on ends with the evaluator's error, yields
\* no SQL, and leaves the preparedStatementContext as it found it.
C15_EvaluatorFailureLeavesContext ==
  [][(resolution'.usePreparedSql /\ resolution'.property = "body"
        /\ resolution'.status # "none"
        /\ EvaluationFails(PropertyToResolve(resolution'.hasBody, resolution'.body))) =>
       /\ resolution'.status = "threw"
       /\ resolution'.error = "#throws"
       /\ resolution'.resolved = <<>>
       /\ preparedStatementContext' = preparedStatementContext]_vars

\* The evaluator has failed in a call that found the list of an earlier call.
C15_Witness ==
  /\ resolution.status = "threw"
  /\ resolution.usePreparedSql
  /\ resolution.property = "body"
  /\ preparedStatementContext # <<>>

\* C16: a call that is not for 'body' with usePreparedSql set is answered by
\* the base resolver (values in the text, no placeholder) and leaves the
\* preparedStatementContext as it found it.
C16_OtherCallsLeaveContext ==
  [][(resolution'.status # "none"
        /\ ~(resolution'.usePreparedSql /\ resolution'.property = "body")) =>
       /\ preparedStatementContext' = preparedStatementContext
       /\ Placeholders(resolution'.resolved) = <<>>]_vars

\* 'headers' has been resolved with usePreparedSql set, and the list of an
\* earlier call is there.
C16_Witness ==
  /\ resolution.status = "resolved"
  /\ resolution.usePreparedSql
  /\ resolution.property = "headers"
  /\ ExprPositions(LastTemplate) # {}
  /\ preparedStatementContext # <<>>

(***************************************************************************)
(* Claims about retries (Spec).                                            *)
(***************************************************************************)
\* C17: within one invocation the connection is tried at most once and the
\* query is sent at most once, and the first failure of either ends the
\* invocation with an error: nothing is tried again.
C17_NoRetry ==
  \A p \in Procs :
    /\ connectAttempts[p] <= 1
    /\ Len(issued[p]) <= 1
    /\ Len(cause[p]) <= 1
    /\ cause[p] # <<>> => (Done(p) /\ outcome[p].kind = "error")

\* The one query of a legacy execute was refused, and the invocation has ended.
C17_Witness ==
  \E p \in Procs :
    /\ Done(p)
    /\ variant = "legacy"
    /\ op[p] = "execute"
    /\ connectAttempts[p] = 1
    /\ Len(issued[p]) = 1
    /\ cause[p] = <<<<"Invalid object name">>>>
    /\ outcome[p].kind = "error"
====
